---------------------------- MODULE Spec2Model ----------------------------
(***************************************************************************)
(* A model of Jupyter_notebooks/alloy_generator.py: the lattice-gas alloy  *)
(* of Create_alloy, the Metropolis step MC_swap and the neighbour          *)
(* histogram of test2D.                                                    *)
(*                                                                         *)
(* A lattice is a function from the sites <<row, column>> of an N x N grid *)
(* to {0, 1} (1 = A atom, 0 = B atom).  The composition Xa is a rational   *)
(* <<p, q>> = p/q.  The interaction energy E is an integer number of       *)
(* energy units.  The uniform draw of [0,1) and the Boltzmann factor       *)
(* exp(-e/kT) are counted in units of 1/DrawRes.  The temperature T > 0    *)
(* enters only through kT > 0 in that factor, so it is no variable: the    *)
(* factor ranges over the values it can take for some kT > 0.              *)
(***************************************************************************)
EXTENDS Integers, Sequences, FiniteSets

\* Bounds of the model.
MaxN == 3
MaxDen == 3
MaxSteps == 2
MaxE == 1
DrawRes == 2

VARIABLES
    N,          \* Create_alloy / test2D parameter: the lattice side
    Xa,         \* Create_alloy parameter: the fraction of A atoms, <<p, q>>
    n,          \* Create_alloy parameter: the number of iterations
    E,          \* Create_alloy parameter: the A-B interaction energy
    alloy,      \* the lattice
    i,          \* the loop variable of Create_alloy
    calls,      \* how many times MC_swap has been called
    count0,     \* the number of A cells of the initial lattice
    last,       \* what the last call of MC_swap selected, computed and did
    observed,   \* the array n that test2D plots as 'Simulation Result'
    pc          \* the position of the program

vars == <<N, Xa, n, E, alloy, i, calls, count0, last, observed, pc>>

-----------------------------------------------------------------------------
\* Lattices

Sites(side) == (0 .. side - 1) \X (0 .. side - 1)

Lattices(side) == [Sites(side) -> {0, 1}]

ACount(a) == Cardinality({s \in DOMAIN a : a[s] = 1})

BCount(a) == Cardinality({s \in DOMAIN a : a[s] = 0})

NoLattice == << >>

-----------------------------------------------------------------------------
\* Create_alloy, lines 26-27: the initial random matrix

\* int() of a non-negative rational: its floor.
Floor(num, den) == num \div den

n_a(side, x) == Floor(side * side * x[1], x[2])

n_b(side, x) == Floor(side * side * (x[2] - x[1]), x[2])

\* reshape(N, N) raises ValueError unless the array holds N*N elements.
ReshapeOk(side, x) == n_a(side, x) + n_b(side, x) = side * side

\* The permutations of n_a ones and n_b zeros, reshaped.
InitialLattices(side, x) ==
    {a \in Lattices(side) : ACount(a) = n_a(side, x) /\ BCount(a) = n_b(side, x)}

-----------------------------------------------------------------------------
\* MC_swap

\* Lines 51-62: the second site, for random_neighbour = d.
Row2(r, c, d, side) ==
    IF d = 1 THEN (r - 2) % side
    ELSE IF d = 2 THEN r
    ELSE IF d = 3 THEN r % side
    ELSE r

Column2(r, c, d, side) ==
    IF d = 1 THEN c
    ELSE IF d = 2 THEN c % side
    ELSE IF d = 3 THEN c
    ELSE (r - 2) % side

\* A variant of BondCells: the four nearest neighbours of the site.
BondCellsShifted(r, c, side) ==
    << <<(r + 1) % side, c>>, <<(r - 1) % side, c>>,
       <<r, (c + 1) % side>>, <<r, (c - 1) % side>> >>

\* Lines 70-73 and 75-78: the four cells read around the site (r, c), in the
\* order of the sum of lines 81-82: down, up, right, left.
BondCells(r, c, side) ==
    << <<r % side, c>>, <<(r - 2) % side, c>>,
       <<r, c % side>>, <<r, (c - 2) % side>> >>

\* Lines 81-82.
Bonds(a, r, c, side) ==
    LET cells == BondCells(r, c, side)
    IN  a[cells[1]] + a[cells[2]] + a[cells[3]] + a[cells[4]]

\* Lines 65-95: the energy difference of swapping the two sites.
DeltaE(a, r, c, d, side, energy) ==
    LET row2 == Row2(r, c, d, side)
        column2 == Column2(r, c, d, side)
        atom1 == a[<<r, c>>]
        atom2 == a[<<row2, column2>>]
        Bonds1 == Bonds(a, r, c, side)
        Bonds2 == Bonds(a, row2, column2, side)
        Initial1 == IF atom1 = 0 THEN Bonds1 ELSE 4 - Bonds1
        End1 == IF atom1 = 0 THEN 4 - Bonds1 ELSE Bonds1
        Initial2 == IF atom1 = 0 THEN 4 - Bonds2 ELSE Bonds2
        End2 == IF atom1 = 0 THEN Bonds2 ELSE 4 - Bonds2
    IN  IF atom1 = atom2 THEN 0
        ELSE energy * (End1 + End2 - Initial1 - Initial2)

\* The values np.exp(-e/kT) can take for some kT > 0, in units of 1/DrawRes:
\* exactly 1 for e = 0, above 1 for e < 0, and for e > 0 anything from 0
\* (underflow) to 1 (rounding).
ExpValues(e) ==
    IF e = 0 THEN {DrawRes}
    ELSE IF e < 0 THEN {DrawRes + 1}
    ELSE 0 .. DrawRes

\* np.random.uniform(0,1): a draw of [0, 1).
Draws == 0 .. DrawRes - 1

\* Lines 97 and 100: whether the atoms are swapped.
Accepts(e, p, draw) ==
    IF e < 0 THEN TRUE ELSE p > draw

\* A variant of SwapAtoms: the second assignment reads the first site after
\* it has been overwritten.
SwapAtomsNoTemp(a, site1, site2) ==
    LET first == [a EXCEPT ![site1] = a[site2]]
    IN  [first EXCEPT ![site2] = first[site1]]

\* A variant of SwapAtoms: the second assignment is missing.
SwapAtomsOneWrite(a, site1, site2) ==
    [a EXCEPT ![site1] = a[site2]]

\* A variant of SwapAtoms: the second assignment has its indices transposed.
SwapAtomsTransposed(a, site1, site2) ==
    LET first == [a EXCEPT ![site1] = a[site2]]
    IN  [first EXCEPT ![<<site2[2], site2[1]>>] = a[site1]]

\* Lines 98-99 and 101-102: the two assignments, in order.
SwapAtoms(a, site1, site2) ==
    LET atom1 == a[site1]
        atom2 == a[site2]
        first == [a EXCEPT ![site1] = atom2]
    IN  [first EXCEPT ![site2] = atom1]

\* What MC_swap selects and computes for the random choices (r, c), d, and
\* the draw.
MC_swap_call(a, side, energy, r, c, d, p, draw) ==
    LET row2 == Row2(r, c, d, side)
        column2 == Column2(r, c, d, side)
        e == DeltaE(a, r, c, d, side, energy)
        swap == Accepts(e, p, draw)
    IN  [r |-> r, c |-> c, d |-> d, row2 |-> row2, column2 |-> column2,
         atom1 |-> a[<<r, c>>], atom2 |-> a[<<row2, column2>>],
         e |-> e, swapped |-> swap, before |-> a]

\* Lines 96-103: the lattice MC_swap returns.
MC_swap(a, side, energy, r, c, d, p, draw) ==
    LET call == MC_swap_call(a, side, energy, r, c, d, p, draw)
    IN  IF call.swapped
        THEN SwapAtoms(a, <<r, c>>, <<call.row2, call.column2>>)
        ELSE a

NoCall ==
    [r |-> 0, c |-> 0, d |-> 0, row2 |-> 0, column2 |-> 0, atom1 |-> 0,
     atom2 |-> 0, e |-> 0, swapped |-> FALSE, before |-> NoLattice]

-----------------------------------------------------------------------------
\* Create_alloy as a state machine

RECURSIVE GCD(_, _)
GCD(x, y) == IF y = 0 THEN x ELSE GCD(y, x % y)

\* The fractions p/q of [0, 1] in lowest terms, q <= MaxDen.
Compositions ==
    {x \in (0 .. MaxDen) \X (1 .. MaxDen) : x[1] <= x[2] /\ GCD(x[1], x[2]) = 1}

Init ==
    /\ N \in 1 .. MaxN
    /\ Xa \in Compositions
    /\ n \in 0 .. MaxSteps
    /\ E \in -MaxE .. MaxE
    /\ alloy = NoLattice
    /\ i = 0
    /\ calls = 0
    /\ count0 = 0
    /\ last = NoCall
    /\ observed = << >>
    /\ pc = "start"

\* Lines 26-27.
Initializer ==
    /\ pc = "start"
    /\ IF ReshapeOk(N, Xa)
       THEN /\ alloy' \in InitialLattices(N, Xa)
            /\ count0' = ACount(alloy')
            /\ pc' = "loop"
       ELSE /\ pc' = "error"
            /\ UNCHANGED <<alloy, count0>>
    /\ UNCHANGED <<N, Xa, n, E, i, calls, last, observed>>

\* Lines 28-29: one iteration of the loop.
Step ==
    /\ pc = "loop"
    /\ i < n
    /\ \E r \in 0 .. N - 1, c \in 0 .. N - 1, d \in 1 .. 4, draw \in Draws :
         \E p \in ExpValues(DeltaE(alloy, r, c, d, N, E)) :
            /\ last' = MC_swap_call(alloy, N, E, r, c, d, p, draw)
            /\ alloy' = MC_swap(alloy, N, E, r, c, d, p, draw)
    /\ i' = i + 1
    /\ calls' = calls + 1
    /\ UNCHANGED <<N, Xa, n, E, count0, observed, pc>>

\* Line 30.
Return ==
    /\ pc = "loop"
    /\ i = n
    /\ pc' = "done"
    /\ UNCHANGED <<N, Xa, n, E, alloy, i, calls, count0, last, observed>>

Next == Initializer \/ Step \/ Return

Spec == Init /\ [][Next]_vars

-----------------------------------------------------------------------------
\* test2D

\* A variant of Up: the row above.
UpMinusOne(idx, side) == idx - 1

\* Lines 121-124, with Python's precedence: i - 2 % N is i - (2 % N).
Up(idx, side) == idx - (2 % side)

Down(idx, side) == idx % side

Left(idx, side) == idx - (2 % side)

Right(idx, side) == idx % side

\* numpy's index rule on an axis of length side: a negative index counts from
\* the end, and an index outside -side .. side-1 raises IndexError.
IndexOk(k, side) == k >= -side /\ k < side

PyIndex(k, side) == IF k < 0 THEN k + side ELSE k

\* Line 126: the four cells read for the site (i, j), in the order of the sum.
Test2DCells(row, col, side) ==
    << <<PyIndex(Down(row, side), side), col>>,
       <<PyIndex(Up(row, side), side), col>>,
       <<row, PyIndex(Right(col, side), side)>>,
       <<row, PyIndex(Left(col, side), side)>> >>

Test2DIndexOk(row, col, side) ==
    /\ IndexOk(Down(row, side), side)
    /\ IndexOk(Up(row, side), side)
    /\ IndexOk(Right(col, side), side)
    /\ IndexOk(Left(col, side), side)

Bond(a, row, col, side) ==
    LET cells == Test2DCells(row, col, side)
    IN  a[cells[1]] + a[cells[2]] + a[cells[3]] + a[cells[4]]

\* Line 116: np.zeros(5).
Zeros5 == [k \in 0 .. 4 |-> 0]

\* A variant of Tally: the bucket is set, not incremented.
TallyOverwrite(hist, atom, bond) ==
    IF atom = 0
    THEN [hist EXCEPT !.n_a[bond] = 1]
    ELSE [hist EXCEPT !.n_b[bond] = 1]

\* Lines 127-130: one tally.  The array of the B sites is named n_a in the
\* source and the array of the A sites n_b.
Tally(hist, atom, bond) ==
    IF atom = 0
    THEN [hist EXCEPT !.n_a[bond] = @ + 1]
    ELSE [hist EXCEPT !.n_b[bond] = @ + 1]

\* Lines 118-130: the scan of the sites in row-major order, from site number k.
RECURSIVE Scan(_, _, _, _)
Scan(a, side, k, hist) ==
    IF k = side * side THEN hist
    ELSE LET row == k \div side
             col == k % side
         IN  Scan(a, side, k + 1, Tally(hist, a[<<row, col>>], Bond(a, row, col, side)))

\* np.flip of a length-5 array.
Flip(arr) == [k \in 0 .. 4 |-> arr[4 - k]]

\* Lines 116-132: the array n.
test2D(a, side) ==
    LET hist == Scan(a, side, 0, [n_a |-> Zeros5, n_b |-> Zeros5])
    IN  [k \in 0 .. 4 |-> hist.n_a[k] + Flip(hist.n_b)[k]]

\* test2D as a state machine, on any lattice.
InitStats ==
    /\ N \in 1 .. MaxN
    /\ alloy \in Lattices(N)
    /\ Xa = <<ACount(alloy), N * N>>
    /\ n = 0
    /\ E = 0
    /\ i = 0
    /\ calls = 0
    /\ count0 = ACount(alloy)
    /\ last = NoCall
    /\ observed = << >>
    /\ pc = "test2D"

Statistics ==
    /\ pc = "test2D"
    /\ IF \A s \in Sites(N) : Test2DIndexOk(s[1], s[2], N)
       THEN /\ observed' = test2D(alloy, N)
            /\ pc' = "plotted"
       ELSE /\ pc' = "error"
            /\ UNCHANGED observed
    /\ UNCHANGED <<N, Xa, n, E, alloy, i, calls, count0, last>>

NextStats == Statistics

SpecStats == InitStats /\ [][NextStats]_vars

-----------------------------------------------------------------------------
\* MC_swap as a state machine: one call, on any lattice.

InitSwap ==
    /\ N \in 1 .. MaxN
    /\ alloy \in Lattices(N)
    /\ E \in -MaxE .. MaxE
    /\ Xa = <<ACount(alloy), N * N>>
    /\ n = 1
    /\ i = 0
    /\ calls = 0
    /\ count0 = ACount(alloy)
    /\ last = NoCall
    /\ observed = << >>
    /\ pc = "MC_swap"

SwapStep ==
    /\ pc = "MC_swap"
    /\ \E r \in 0 .. N - 1, c \in 0 .. N - 1, d \in 1 .. 4, draw \in Draws :
         \E p \in ExpValues(DeltaE(alloy, r, c, d, N, E)) :
            /\ last' = MC_swap_call(alloy, N, E, r, c, d, p, draw)
            /\ alloy' = MC_swap(alloy, N, E, r, c, d, p, draw)
    /\ calls' = calls + 1
    /\ pc' = "returned"
    /\ UNCHANGED <<N, Xa, n, E, i, count0, observed>>

NextSwap == SwapStep

SpecSwap == InitSwap /\ [][NextSwap]_vars

-----------------------------------------------------------------------------
\* Reference notions the properties are stated with.

\* A call of MC_swap has been made; last describes it.
Called == last.d # 0

Site1 == <<last.r, last.c>>

Site2 == <<last.row2, last.column2>>

\* The lattice a with the values of the two sites exchanged.
Exchanged(a, site1, site2) ==
    [s \in DOMAIN a |->
        IF s = site1 THEN a[site2] ELSE IF s = site2 THEN a[site1] ELSE a[s]]

\* The periodic nearest neighbour of (r, c) in direction d on the torus:
\* 1 = up, 2 = right, 3 = down, 4 = left.
TorusNeighbour(r, c, d, side) ==
    IF d = 1 THEN <<(r - 1) % side, c>>
    ELSE IF d = 2 THEN <<r, (c + 1) % side>>
    ELSE IF d = 3 THEN <<(r + 1) % side, c>>
    ELSE <<r, (c - 1) % side>>

\* How many of the four periodic neighbours of site s hold the other species.
UnlikeNeighbours(a, s, side) ==
    Cardinality({d \in 1 .. 4 : a[TorusNeighbour(s[1], s[2], d, side)] # a[s]})

\* How often x occurs in the sequence seq.
Occurrences(seq, x) == Cardinality({k \in DOMAIN seq : seq[k] = x})

SameBag(seq1, seq2) ==
    /\ Len(seq1) = Len(seq2)
    /\ \A k \in DOMAIN seq1 : Occurrences(seq1, seq1[k]) = Occurrences(seq2, seq1[k])

Sum5(arr) == arr[0] + arr[1] + arr[2] + arr[3] + arr[4]

-----------------------------------------------------------------------------
\* Properties

\* C1 (species conservation): in every state of a run of Create_alloy that
\* holds a lattice, after any number of calls of MC_swap, the lattice has as
\* many A cells as the initial lattice had.
C1_SpeciesConservation ==
    pc \in {"loop", "done"} => ACount(alloy) = count0

\* C1's case: a finished run of two or more steps whose last step exchanged
\* an A atom and a B atom.
C1_Witness ==
    /\ pc = "done"
    /\ calls >= 2
    /\ last.swapped
    /\ last.atom1 # last.atom2
    /\ alloy # last.before

\* C2 (initial counts): for every N and Xa the Initializer succeeds, and the
\* initial lattice holds floor(N^2 Xa) A cells and N^2 - floor(N^2 Xa) B cells.
C2_InitializerCounts ==
    /\ pc # "error"
    /\ (pc = "loop" /\ i = 0) =>
          /\ ACount(alloy) = Floor(N * N * Xa[1], Xa[2])
          /\ BCount(alloy) = N * N - Floor(N * N * Xa[1], Xa[2])

\* C3 (neighbour selection): the second site MC_swap selects is the periodic
\* nearest neighbour of the first site in the drawn direction (1 = up,
\* 2 = right, 3 = down, 4 = left).
C3_SecondSiteIsNeighbour ==
    Called => Site2 = TorusNeighbour(last.r, last.c, last.d, N)

\* C4 (histogram content): observed[k] is the number of sites with exactly k
\* of their four periodic neighbours of the opposite species.
C4_HistogramCountsUnlikeNeighbours ==
    pc = "plotted" =>
        \A k \in 0 .. 4 :
            observed[k] =
                Cardinality({s \in Sites(N) : UnlikeNeighbours(alloy, s, N) = k})

\* C5 (histogram sum): test2D raises no index error, and the entries of
\* observed sum to N^2.
C5_HistogramSum ==
    /\ pc # "error"
    /\ pc = "plotted" => Sum5(observed) = N * N

\* C5's case: the histogram of a 3 x 3 lattice of both species whose sites
\* fall in more than one bucket.
C5_Witness ==
    /\ pc = "plotted"
    /\ N = 3
    /\ ACount(alloy) > 0
    /\ BCount(alloy) > 0
    /\ \E k \in 0 .. 4 : observed[k] > 1 /\ observed[k] < N * N

\* C6 (equal species): when the two selected sites hold the same species,
\* the lattice MC_swap returns equals the lattice it was given.
C6_EqualSpeciesUnchanged ==
    (Called /\ last.atom1 = last.atom2) => alloy = last.before

\* C6's case: two different sites of the same species, and the assignments
\* of the swap were executed.
C6_Witness ==
    /\ Called
    /\ last.atom1 = last.atom2
    /\ Site1 # Site2
    /\ last.swapped
    /\ ACount(alloy) > 0
    /\ BCount(alloy) > 0

\* C7 (negative energy delta): when e < 0 the two selected sites exchange
\* their values and every other cell keeps its value.
C7_NegativeDeltaSwaps ==
    (Called /\ last.e < 0) =>
        /\ alloy[Site1] = last.before[Site2]
        /\ alloy[Site2] = last.before[Site1]
        /\ \A s \in Sites(N) \ {Site1, Site2} : alloy[s] = last.before[s]

\* C7's case: a call with e < 0 on two different sites.
C7_Witness ==
    /\ Called
    /\ last.e < 0
    /\ Site1 # Site2
    /\ alloy # last.before

\* C8 (one neighbour rule): for every site, the four cells test2D reads are,
\* as a multiset, the four cells MC_swap reads for Bonds1, and the two bond
\* sums agree on the lattice.
C8_SameNeighbourRule ==
    \A s \in Sites(N) :
        /\ Test2DIndexOk(s[1], s[2], N)
        /\ SameBag(Test2DCells(s[1], s[2], N), BondCells(s[1], s[2], N))
        /\ Bond(alloy, s[1], s[2], N) = Bonds(alloy, s[1], s[2], N)

\* C8's case: a scanned lattice of both species on which test2D computes a
\* negative index.
C8_Witness ==
    /\ pc = "plotted"
    /\ \E s \in Sites(N) : Up(s[1], N) < 0 /\ Left(s[2], N) < 0
    /\ ACount(alloy) > 0
    /\ BCount(alloy) > 0

\* C9 (iteration count and termination): a run of Create_alloy ends only by
\* returning, after exactly n calls of MC_swap.
C9_RunsNStepsAndReturns ==
    pc \in {"done", "error"} => (pc = "done" /\ calls = n /\ i = n)

\* C10 (sign of the energy delta): when the two selected sites differ,
\* e = 2*E*m for some m in 0..4, and with E < 0 the atoms are swapped.
C10_DeltaSignAndAcceptance ==
    (Called /\ last.atom1 # last.atom2) =>
        /\ \E m \in 0 .. 4 : last.e = 2 * E * m
        /\ E < 0 => (last.swapped /\ alloy = Exchanged(last.before, Site1, Site2))

\* C10's case: E < 0, sites of different species and e = 0 (m = 0), where
\* only the Boltzmann test can accept.
C10_Witness ==
    /\ Called
    /\ E < 0
    /\ last.atom1 # last.atom2
    /\ last.e = 0
    /\ last.swapped

=============================================================================
